---- MODULE Spec2Model ----
(***************************************************************************)
(* A model of treetok's tokenizer engine (crates/treetok/src/tokenize):    *)
(*   - ClaudeTokenizer::count_tokens, the remote counter's retry loop      *)
(*     (remote.rs), checked under SpecRetry;                               *)
(*   - resolve_tokenizers (resolve.rs), checked under SpecResolve;         *)
(*   - tokenize_entries and claude_tokenize_all (run.rs), the two-phase    *)
(*     executor, checked under Spec;                                       *)
(*   - the admission control of claude_tokenize_all with the code's        *)
(*     capacity of 20, checked under SpecAdmit.                            *)
(* Every specification owns a group of the variables and leaves the other  *)
(* groups at their idle value.                                             *)
(***************************************************************************)
EXTENDS Integers, Sequences, FiniteSets, TLC

VARIABLES
    \* ---- one call of ClaudeTokenizer::count_tokens (SpecRetry)
    call,       \* position in the retry loop: [pc, attempt, result]
    sent,       \* number of HTTP requests this call has sent
    slept,      \* the backoff sleeps taken, in order (seconds)
    resps,      \* the responses received, in order
    \* ---- one call of resolve_tokenizers (SpecResolve)
    rin,        \* its arguments and the outcome of O200kTokenizer::new
    rout,       \* its return value
    \* ---- one call of tokenize_entries (Spec)
    entries,    \* the input slice of FileEntry
    tokenizers, \* the ResolvedTokenizers it runs
    results,    \* the Vec<FileResult> under construction
    phase,      \* "phase1" | "phase2" | "done"
    localOut,   \* per entry, what each local counter returned in Phase 1
    phase1,     \* the results vector as Phase 1 left it
    nextText,   \* how many of text_indices the stream has handed out
    task,       \* per entry index, the state of its Phase 2 future
    permits,    \* available permits of the semaphore
    counts,     \* the collected (idx, result) pairs, in completion order
    \* ---- admission control with the code's capacity (SpecAdmit)
    adm,        \* counters of the futures in each stage
    \* ---- one invocation of main (SpecMain)
    inv,        \* the command line, the environment and where main stands
    \* ---- one call of CtocTokenizer::count_tokens (SpecCtoc)
    seg,        \* the vocabulary, the text and the locals of the scan
    \* ---- one call of TokenCount::from_approx (SpecApprox)
    fa,         \* the raw count and the range returned
    \* ---- the totals of a run: accumulate_totals (SpecTotals)
    tot         \* the calls still to make and the totals map

vars == <<call, sent, slept, resps, rin, rout, entries, tokenizers, results,
          phase, localOut, phase1, nextText, task, permits, counts, adm,
          inv, seg,
    fa, tot>>

\* What the steps of one group leave alone: the other groups.
RetryFrame == UNCHANGED <<rin, rout, entries, tokenizers, results, phase,
                          localOut, phase1, nextText, task, permits, counts,
                          adm, inv, seg,
    fa, tot>>
ResolveFrame == UNCHANGED <<call, sent, slept, resps, entries, tokenizers,
                            results, phase, localOut, phase1, nextText, task,
                            permits, counts, adm, inv, seg,
    fa, tot>>
ExecFrame == UNCHANGED <<call, sent, slept, resps, rin, rout, adm, inv, seg,
    fa, tot>>
AdmitFrame == UNCHANGED <<call, sent, slept, resps, rin, rout, entries,
                          tokenizers, results, phase, localOut, phase1,
                          nextText, task, permits, counts, inv,
                          seg,
    fa, tot>>
MainFrame == UNCHANGED <<call, sent, slept, resps, adm, seg,
    fa, tot>>
CtocFrame == UNCHANGED <<call, sent, slept, resps, rin, rout, entries,
                         tokenizers, results, phase, localOut, phase1,
                         nextText, task, permits, counts, adm, inv,
    fa, tot>>

ApproxFrame == UNCHANGED <<call, sent, slept, resps, rin, rout, entries,
                           tokenizers, results, phase, localOut, phase1,
                           nextText, task, permits, counts, adm, inv, seg,
                           tot>>
TotalsFrame == UNCHANGED <<call, sent, slept, resps, rin, rout, entries,
                           tokenizers, results, phase, localOut, phase1,
                           nextText, task, permits, counts, adm, inv, seg,
                           fa>>

(***************************************************************************)
(* Values                                                                  *)
(***************************************************************************)

\* TokenizeError (error.rs), one record shape for every variant.
TokErr(kind, status, body, msg) ==
    [kind |-> kind, status |-> status, body |-> body, msg |-> msg]

NoErr == TokErr("none", 0, "", "")
ErrInit(msg) == TokErr("Init", 0, "", msg)
ErrNoApiKey == TokErr("NoApiKey", 0, "", "")
ErrRateLimitExceeded == TokErr("RateLimitExceeded", 0, "", "")
ErrApiError(status, body) == TokErr("ApiError", status, body, "")
ErrNetwork(msg) == TokErr("Network", 0, "", msg)
ErrParse(msg) == TokErr("Parse", 0, "", msg)

\* Result<usize, TokenizeError>; Pending is a call that has not returned.
Pending == [tag |-> "Pending", value |-> 0, err |-> NoErr]
Ok(v) == [tag |-> "Ok", value |-> v, err |-> NoErr]
Err(e) == [tag |-> "Err", value |-> 0, err |-> e]

(***************************************************************************)
(* remote.rs: ClaudeTokenizer::count_tokens                                *)
(***************************************************************************)

MAX_RETRIES == 3

\* The token counts the endpoint answers with in the model.
RemoteCounts == {7, 42}

\* The success body {"input_tokens": v} of the wire protocol.
JsonBody(v) ==
    CASE v = 7 -> "{\"input_tokens\": 7}"
      [] v = 42 -> "{\"input_tokens\": 42}"

\* Bodies that are not a CountTokensResponse.
OpaqueBodies == {"overloaded", "{\"tokens\": 7}"}
Bodies == {JsonBody(v) : v \in RemoteCounts} \cup OpaqueBodies

\* Statuses other than 200 and 429 the endpoint answers with in the model.
OtherStatuses == {400, 500}
Statuses == {200, 429} \cup OtherStatuses

\* What send().await yields: a transport failure, or a response with a
\* status and a body; read_ok says whether the body can then be read off the
\* connection (resp.json() and resp.text() both read it).
TransportFailures ==
    {[kind |-> "transport", status |-> 0, body |-> "", read_ok |-> FALSE,
      msg |-> m] : m \in {"connection refused", "timed out"}}
HttpResponses ==
    {[kind |-> "http", status |-> s, body |-> b, read_ok |-> r,
      msg |-> ""] : s \in Statuses, b \in Bodies, r \in BOOLEAN}
Responses == TransportFailures \cup HttpResponses

\* resp.json::<CountTokensResponse>(): fails when the body cannot be read or
\* does not deserialize to {input_tokens: usize}.
ParseJson(resp) ==
    IF ~resp.read_ok THEN Err(ErrParse("error decoding response body"))
    ELSE IF \E v \in RemoteCounts : resp.body = JsonBody(v)
         THEN Ok(CHOOSE v \in RemoteCounts : resp.body = JsonBody(v))
         ELSE Err(ErrParse("missing field input_tokens"))

\* resp.text().await.unwrap_or_default()
BodyText(resp) == IF resp.read_ok THEN resp.body ELSE ""

\* A backoff that grows linearly instead of doubling.
BackoffSecs_Linear(attempt) == 2 * attempt

\* Duration::from_secs(1 << attempt)
BackoffSecs(attempt) == 2 ^ attempt

\* A loop over 0..=MAX_RETRIES: one attempt too many.
LoopHead_Inclusive(attempt) ==
    IF attempt <= MAX_RETRIES
    THEN [pc |-> "send", attempt |-> attempt, result |-> Pending]
    ELSE [pc |-> "done", attempt |-> attempt,
          result |-> Err(ErrRateLimitExceeded)]

\* The head of the loop "for attempt in 0..MAX_RETRIES": the next iteration,
\* or the fall-through to Err(RateLimitExceeded) when the range is exhausted.
LoopHead(attempt) ==
    IF attempt < MAX_RETRIES
    THEN [pc |-> "send", attempt |-> attempt, result |-> Pending]
    ELSE [pc |-> "done", attempt |-> attempt,
          result |-> Err(ErrRateLimitExceeded)]

Return(c, r) == [c EXCEPT !.pc = "done", !.result = r]

\* The request of this iteration is handed to the client.
SendRequest(c) == [c EXCEPT !.pc = "await"]

\* A loop body that also backs off and retries on a 5xx status.
OnResponse_Retry5xx(c, resp) ==
    IF resp.kind = "transport" THEN Return(c, Err(ErrNetwork(resp.msg)))
    ELSE IF resp.status = 200 THEN Return(c, ParseJson(resp))
    ELSE IF resp.status = 429 \/ resp.status >= 500
         THEN [c EXCEPT !.pc = "sleep"]
    ELSE Return(c, Err(ErrApiError(resp.status, BodyText(resp))))

\* A loop body that backs off and retries when the send fails.
OnResponse_RetryTransport(c, resp) ==
    IF resp.kind = "transport" \/ resp.status = 429
    THEN [c EXCEPT !.pc = "sleep"]
    ELSE IF resp.status = 200 THEN Return(c, ParseJson(resp))
    ELSE Return(c, Err(ErrApiError(resp.status, BodyText(resp))))

\* A loop body that gives up at once on the 429 of the last attempt.
OnResponse_NoLastSleep(c, resp) ==
    IF resp.kind = "transport" THEN Return(c, Err(ErrNetwork(resp.msg)))
    ELSE IF resp.status = 200 THEN Return(c, ParseJson(resp))
    ELSE IF resp.status = 429
         THEN IF c.attempt + 1 < MAX_RETRIES
              THEN [c EXCEPT !.pc = "sleep"]
              ELSE Return(c, Err(ErrRateLimitExceeded))
    ELSE Return(c, Err(ErrApiError(resp.status, BodyText(resp))))

\* The body of one iteration once send().await has resolved to resp.
OnResponse(c, resp) ==
    IF resp.kind = "transport" THEN Return(c, Err(ErrNetwork(resp.msg)))
    ELSE IF resp.status = 200 THEN Return(c, ParseJson(resp))
    ELSE IF resp.status = 429 THEN [c EXCEPT !.pc = "sleep"]
    ELSE Return(c, Err(ErrApiError(resp.status, BodyText(resp))))

\* tokio::time::sleep(wait) has elapsed: on to the next iteration.
OnWake(c) == LoopHead(c.attempt + 1)

IdleCall == [pc |-> "idle", attempt |-> 0, result |-> Pending]

RetryIdle ==
    /\ call = IdleCall
    /\ sent = 0
    /\ slept = <<>>
    /\ resps = <<>>

RetryInit ==
    /\ call = LoopHead(0)
    /\ sent = 0
    /\ slept = <<>>
    /\ resps = <<>>

RetrySend ==
    /\ RetryFrame
    /\ call.pc = "send"
    /\ call' = SendRequest(call)
    /\ sent' = sent + 1
    /\ UNCHANGED <<slept, resps>>

RetryRespond ==
    /\ RetryFrame
    /\ call.pc = "await"
    /\ \E resp \in Responses :
        /\ call' = OnResponse(call, resp)
        /\ resps' = Append(resps, resp)
        /\ slept' = IF call'.pc = "sleep"
                    THEN Append(slept, BackoffSecs(call.attempt))
                    ELSE slept
    /\ UNCHANGED sent

RetryWake ==
    /\ RetryFrame
    /\ call.pc = "sleep"
    /\ call' = OnWake(call)
    /\ UNCHANGED <<sent, slept, resps>>

(***************************************************************************)
(* resolve.rs: resolve_tokenizers                                          *)
(***************************************************************************)

\* Option<String>
None == [some |-> FALSE, v |-> ""]
Some(x) == [some |-> TRUE, v |-> x]

\* The local counters, named as Tokenizer::name names them.
O200k == "o200k"
Ctoc == "ctoc"
Claude == "claude"

\* CtocTokenizer without its override of is_approximate.
IsApproximate_Default(tok) == FALSE

\* Tokenizer::is_approximate: the trait's default is false, CtocTokenizer
\* overrides it with true.
IsApproximate(tok) == tok = Ctoc

NoteNoKey == "note: ANTHROPIC_API_KEY not set, using ctoc"
WarnOffline == "warning: --offline set, skipping -t claude"
WarnUnknown == "warning: unknown tokenizer, skipping"

\* Result<ResolvedTokenizers, TokenizeError>, with what went to stderr.
Resolved(local, claude, diag) ==
    [tag |-> "Ok", err |-> NoErr, local |-> local, claude |-> claude,
     diag |-> diag]
ResolveErr(e, diag) ==
    [tag |-> "Err", err |-> e, local |-> <<>>, claude |-> None, diag |-> diag]

\* ResolvedTokenizers::count
Count(r) == Len(r.local) + (IF r.claude.some THEN 1 ELSE 0)

\* O200kTokenizer::new() maps a failure of tiktoken_rs::o200k_base() to Init.
O200kInitError == ErrInit("o200k_base failed")

\* Range mode that falls back to ctoc only when the key is missing, not
\* when --offline is set.
AutoMode_FallbackOnlyWithoutKey(offline, api_key, o200k_ok) ==
    IF ~o200k_ok THEN ResolveErr(O200kInitError, <<>>)
    ELSE LET claude == IF ~offline /\ api_key.some THEN api_key ELSE None
             diag == IF ~offline /\ ~api_key.some THEN <<NoteNoKey>>
                     ELSE <<>>
             local == IF ~offline /\ ~api_key.some THEN <<O200k, Ctoc>>
                      ELSE <<O200k>>
         IN  Resolved(local, claude, diag)

\* Range mode that treats a missing key as explicit mode does: NoApiKey.
AutoMode_NoKeyIsError(offline, api_key, o200k_ok) ==
    IF ~o200k_ok THEN ResolveErr(O200kInitError, <<>>)
    ELSE IF ~offline /\ ~api_key.some THEN ResolveErr(ErrNoApiKey, <<>>)
    ELSE LET claude == IF ~offline /\ api_key.some THEN api_key ELSE None
             local == IF ~claude.some THEN <<O200k, Ctoc>> ELSE <<O200k>>
         IN  Resolved(local, claude, <<>>)

\* Range mode without the eprintln of the (false, None) arm.
AutoMode_Silent(offline, api_key, o200k_ok) ==
    IF ~o200k_ok THEN ResolveErr(O200kInitError, <<>>)
    ELSE LET claude == IF ~offline /\ api_key.some THEN api_key ELSE None
             local == IF ~claude.some THEN <<O200k, Ctoc>> ELSE <<O200k>>
         IN  Resolved(local, claude, <<>>)

\* Range mode: the branch taken when the explicit list is empty.
AutoMode(offline, api_key, o200k_ok) ==
    IF ~o200k_ok THEN ResolveErr(O200kInitError, <<>>)
    ELSE LET claude == IF ~offline /\ api_key.some THEN api_key ELSE None
             diag == IF ~offline /\ ~api_key.some THEN <<NoteNoKey>>
                     ELSE <<>>
             local == IF ~claude.some THEN <<O200k, Ctoc>> ELSE <<O200k>>
         IN  Resolved(local, claude, diag)

\* Explicit mode without the check for an empty set after the loop.
ExplicitEnd_NoCheck(acc) == acc

\* The check after the loop of explicit mode.
ExplicitEnd(acc) ==
    IF acc.local = <<>> /\ ~acc.claude.some
    THEN ResolveErr(ErrInit("no valid tokenizers available"), acc.diag)
    ELSE acc

\* Explicit mode that fails the resolution at an unknown name.
RECURSIVE ExplicitMode_UnknownIsFatal(_, _, _, _, _)
ExplicitMode_UnknownIsFatal(names, offline, api_key, o200k_ok, acc) ==
    IF names = <<>> THEN ExplicitEnd(acc)
    ELSE LET name == Head(names)
             rest == Tail(names)
         IN  CASE name = O200k ->
                    IF o200k_ok
                    THEN ExplicitMode_UnknownIsFatal(rest, offline, api_key,
                            o200k_ok, [acc EXCEPT !.local = Append(@, O200k)])
                    ELSE ResolveErr(O200kInitError, acc.diag)
               [] name = Ctoc ->
                    ExplicitMode_UnknownIsFatal(rest, offline, api_key,
                        o200k_ok, [acc EXCEPT !.local = Append(@, Ctoc)])
               [] name = Claude ->
                    IF offline
                    THEN ExplicitMode_UnknownIsFatal(rest, offline, api_key,
                            o200k_ok,
                            [acc EXCEPT !.diag = Append(@, WarnOffline)])
                    ELSE IF api_key.some
                    THEN ExplicitMode_UnknownIsFatal(rest, offline, api_key,
                            o200k_ok, [acc EXCEPT !.claude = api_key])
                    ELSE ResolveErr(ErrNoApiKey, acc.diag)
               [] OTHER ->
                    ResolveErr(ErrInit("unknown tokenizer"), acc.diag)

\* Explicit mode that looks at the key before it looks at --offline.
RECURSIVE ExplicitMode_KeyCheckedFirst(_, _, _, _, _)
ExplicitMode_KeyCheckedFirst(names, offline, api_key, o200k_ok, acc) ==
    IF names = <<>> THEN ExplicitEnd(acc)
    ELSE LET name == Head(names)
             rest == Tail(names)
         IN  CASE name = O200k ->
                    IF o200k_ok
                    THEN ExplicitMode_KeyCheckedFirst(rest, offline, api_key,
                            o200k_ok, [acc EXCEPT !.local = Append(@, O200k)])
                    ELSE ResolveErr(O200kInitError, acc.diag)
               [] name = Ctoc ->
                    ExplicitMode_KeyCheckedFirst(rest, offline, api_key,
                        o200k_ok, [acc EXCEPT !.local = Append(@, Ctoc)])
               [] name = Claude ->
                    IF ~api_key.some
                    THEN ResolveErr(ErrNoApiKey, acc.diag)
                    ELSE IF offline
                    THEN ExplicitMode_KeyCheckedFirst(rest, offline, api_key,
                            o200k_ok,
                            [acc EXCEPT !.diag = Append(@, WarnOffline)])
                    ELSE ExplicitMode_KeyCheckedFirst(rest, offline, api_key,
                            o200k_ok, [acc EXCEPT !.claude = api_key])
               [] OTHER ->
                    ExplicitMode_KeyCheckedFirst(rest, offline, api_key,
                        o200k_ok,
                        [acc EXCEPT !.diag = Append(@, WarnUnknown)])

\* Explicit mode that constructs a local counter once however often its
\* key is requested.
RECURSIVE ExplicitMode_Dedup(_, _, _, _, _)
ExplicitMode_Dedup(names, offline, api_key, o200k_ok, acc) ==
    IF names = <<>> THEN ExplicitEnd(acc)
    ELSE LET name == Head(names)
             rest == Tail(names)
             seen == \E j \in 1..Len(acc.local) : acc.local[j] = name
         IN  CASE name = O200k ->
                    IF seen
                    THEN ExplicitMode_Dedup(rest, offline, api_key, o200k_ok,
                            acc)
                    ELSE IF o200k_ok
                    THEN ExplicitMode_Dedup(rest, offline, api_key, o200k_ok,
                            [acc EXCEPT !.local = Append(@, O200k)])
                    ELSE ResolveErr(O200kInitError, acc.diag)
               [] name = Ctoc ->
                    IF seen
                    THEN ExplicitMode_Dedup(rest, offline, api_key, o200k_ok,
                            acc)
                    ELSE ExplicitMode_Dedup(rest, offline, api_key, o200k_ok,
                            [acc EXCEPT !.local = Append(@, Ctoc)])
               [] name = Claude ->
                    IF offline
                    THEN ExplicitMode_Dedup(rest, offline, api_key, o200k_ok,
                            [acc EXCEPT !.diag = Append(@, WarnOffline)])
                    ELSE IF api_key.some
                    THEN ExplicitMode_Dedup(rest, offline, api_key, o200k_ok,
                            [acc EXCEPT !.claude = api_key])
                    ELSE ResolveErr(ErrNoApiKey, acc.diag)
               [] OTHER ->
                    ExplicitMode_Dedup(rest, offline, api_key, o200k_ok,
                        [acc EXCEPT !.diag = Append(@, WarnUnknown)])

\* Explicit mode: the loop over the requested names, acc holding local,
\* claude and the warnings written so far.
RECURSIVE ExplicitMode(_, _, _, _, _)
ExplicitMode(names, offline, api_key, o200k_ok, acc) ==
    IF names = <<>> THEN ExplicitEnd(acc)
    ELSE LET name == Head(names)
             rest == Tail(names)
         IN  CASE name = O200k ->
                    IF o200k_ok
                    THEN ExplicitMode(rest, offline, api_key, o200k_ok,
                            [acc EXCEPT !.local = Append(@, O200k)])
                    ELSE ResolveErr(O200kInitError, acc.diag)
               [] name = Ctoc ->
                    ExplicitMode(rest, offline, api_key, o200k_ok,
                        [acc EXCEPT !.local = Append(@, Ctoc)])
               [] name = Claude ->
                    IF offline
                    THEN ExplicitMode(rest, offline, api_key, o200k_ok,
                            [acc EXCEPT !.diag = Append(@, WarnOffline)])
                    ELSE IF api_key.some
                    THEN ExplicitMode(rest, offline, api_key, o200k_ok,
                            [acc EXCEPT !.claude = api_key])
                    ELSE ResolveErr(ErrNoApiKey, acc.diag)
               [] OTHER ->
                    ExplicitMode(rest, offline, api_key, o200k_ok,
                        [acc EXCEPT !.diag = Append(@, WarnUnknown)])

ResolveTokenizers(explicit, offline, api_key, o200k_ok) ==
    IF explicit = <<>> THEN AutoMode(offline, api_key, o200k_ok)
    ELSE ExplicitMode(explicit, offline, api_key, o200k_ok,
                      Resolved(<<>>, None, <<>>))

\* The longest explicit list of the model.
MaxExplicit == 2

\* The names given with -t: the three keys and one unknown name.
Names == {O200k, Ctoc, Claude, "gpt2"}
ApiKeys == {None, Some("test-key")}

SeqsUpTo(S, n) == UNION {[1..k -> S] : k \in 0..n}

ResolveInputs ==
    [explicit : SeqsUpTo(Names, MaxExplicit), offline : BOOLEAN,
     api_key : ApiKeys, o200k_ok : BOOLEAN]

NotCalled == [tag |-> "NotCalled", err |-> NoErr, local |-> <<>>,
              claude |-> None, diag |-> <<>>]
IdleInput == [explicit |-> <<>>, offline |-> FALSE, api_key |-> None,
              o200k_ok |-> TRUE]

ResolveIdle ==
    /\ rin = IdleInput
    /\ rout = NotCalled

ResolveInit ==
    /\ rin \in ResolveInputs
    /\ rout = NotCalled

ResolveCall ==
    /\ ResolveFrame
    /\ rout.tag = "NotCalled"
    /\ rout' = ResolveTokenizers(rin.explicit, rin.offline, rin.api_key,
                                 rin.o200k_ok)
    /\ UNCHANGED rin

(***************************************************************************)
(* mod.rs: TokenCount and TokenizerId                                      *)
(***************************************************************************)

\* TokenCount: lo and hi as the accessors lo() and hi() give them.
Exact(n) == [tag |-> "Exact", lo |-> n, hi |-> n]
Approx(lo, hi) == [tag |-> "Approx", lo |-> lo, hi |-> hi]

\* A division that rounds down where div_ceil rounds up.
DivCeil_RoundsDown(a, b) == a \div b

\* usize::saturating_sub and usize::div_ceil
SaturatingSub(a, b) == IF a >= b THEN a - b ELSE 0
DivCeil(a, b) == (a + b - 1) \div b

\* A range of 4.1 % each way without the slack of 2 tokens.
FromApprox_NoSlack(count) ==
    Approx((count * 959) \div 1000, DivCeil(count * 1041, 1000))

\* TokenCount::from_approx
FromApprox(count) ==
    Approx(SaturatingSub((count * 959) \div 1000, 2),
           DivCeil(count * 1041, 1000) + 2)

\* A key that names the variant of the count instead of the counter.
TokId_ByVariant(tok) == IF IsApproximate(tok) THEN "approx" ELSE "exact"

\* TokenizerId, by its key as_str(), of a local counter and of the remote one.
TokId(tok) == tok
ClaudeId == Claude

\* BTreeMap<TokenizerId, TokenCount>: a function on the keys present.
EmptyMap == [k \in {} |-> Exact(0)]
Insert(m, k, v) == [x \in (DOMAIN m) \cup {k} |-> IF x = k THEN v ELSE m[x]]

(***************************************************************************)
(* run.rs: tokenize_entries, Phase 1                                       *)
(***************************************************************************)

\* The longest batch of the model.
MaxEntries == 2

\* FileKind with the message Error carries ("" for the other kinds).
FileKinds ==
    {[kind |-> "Text", msg |-> ""], [kind |-> "Binary", msg |-> ""],
     [kind |-> "TooLarge", msg |-> ""],
     [kind |-> "Error", msg |-> "permission denied"]}

\* The batches: the walker gives every file its own rel_path (here the
\* file's number); the content of a Text file shows only in what the
\* counters return for it, which the actions choose.
Batches ==
    UNION {{[i \in 1..k |-> [rel_path |-> i, kind |-> ks[i].kind,
                             msg |-> ks[i].msg]] : ks \in [1..k -> FileKinds]}
           : k \in 0..MaxEntries}

\* The invocations whose resolved counters run the batch.
ExecInvocations ==
    {[explicit |-> <<>>, offline |-> FALSE, api_key |-> Some("test-key"),
      o200k_ok |-> TRUE],
     [explicit |-> <<>>, offline |-> TRUE, api_key |-> None,
      o200k_ok |-> TRUE],
     [explicit |-> <<Ctoc, Claude>>, offline |-> FALSE,
      api_key |-> Some("test-key"), o200k_ok |-> TRUE],
     [explicit |-> <<O200k, O200k>>, offline |-> FALSE, api_key |-> None,
      o200k_ok |-> TRUE]}

ResolvedSets ==
    {[local |-> r.local, claude |-> r.claude] :
        r \in {ResolveTokenizers(i.explicit, i.offline, i.api_key, i.o200k_ok)
               : i \in ExecInvocations}}

\* What Tokenizer::count_tokens of a local counter returns: the trait lets
\* it fail; O200kTokenizer and CtocTokenizer always return Ok.
RawCounts == {5}
LocalOutcomes == {Ok(n) : n \in RawCounts} \cup {Err(ErrInit("count failed"))}

LocalToks(toks) == {toks.local[j] : j \in 1..Len(toks.local)}

\* A loop over the local counters that stops at the first failure.
RECURSIVE LocalCounts_StopsAtError(_, _, _)
LocalCounts_StopsAtError(local, out, acc) ==
    IF local = <<>> THEN acc
    ELSE LET tok == Head(local)
             r == out[tok]
             tc == IF IsApproximate(tok) THEN FromApprox(r.value)
                   ELSE Exact(r.value)
         IN  IF r.tag = "Ok"
             THEN LocalCounts_StopsAtError(Tail(local), out,
                      Insert(acc, TokId(tok), tc))
             ELSE acc

\* The loop "for tok in &tokenizers.local" over one Text file: out[tok] is
\* what tok.count_tokens(content) returns.
RECURSIVE LocalCounts(_, _, _)
LocalCounts(local, out, acc) ==
    IF local = <<>> THEN acc
    ELSE LET tok == Head(local)
             r == out[tok]
             tc == IF IsApproximate(tok) THEN FromApprox(r.value)
                   ELSE Exact(r.value)
         IN  LocalCounts(Tail(local), out,
                 IF r.tag = "Ok" THEN Insert(acc, TokId(tok), tc) ELSE acc)

\* The closure of Phase 1: the FileResult of one entry.
Phase1Result(entry, local, out) ==
    [rel_path |-> entry.rel_path, kind |-> entry.kind, msg |-> entry.msg,
     tokens |-> IF entry.kind = "Text"
                THEN LocalCounts(local, out, EmptyMap)
                ELSE EmptyMap]

(***************************************************************************)
(* run.rs: claude_tokenize_all, Phase 2                                    *)
(***************************************************************************)

\* Semaphore::new(20) and buffer_unordered(20)
SEMAPHORE_PERMITS == 20
BUFFER_UNORDERED == 20

\* Indices of all the entries, Text or not.
TextIndices_All(es) == [i \in 1..Len(es) |-> i]

\* text_indices
RECURSIVE TextIndicesFrom(_, _)
TextIndicesFrom(es, i) ==
    IF i > Len(es) THEN <<>>
    ELSE IF es[i].kind = "Text" THEN <<i>> \o TextIndicesFrom(es, i + 1)
    ELSE TextIndicesFrom(es, i + 1)
TextIndices(es) == TextIndicesFrom(es, 1)

\* A write-back that takes the counts to be in the order of text_indices:
\* the k-th collected count goes to the k-th Text file.
RECURSIVE WriteByArrival(_, _, _)
WriteByArrival(res, cs, k) ==
    IF cs = <<>> THEN res
    ELSE LET idx == TextIndices(res)[k]
             r == Head(cs).result
         IN  WriteByArrival(
                 IF r.tag = "Ok"
                 THEN [res EXCEPT ![idx].tokens =
                           Insert(@, Claude, Exact(r.value))]
                 ELSE res,
                 Tail(cs), k + 1)
WriteCounts_ByArrival(res, cs) == WriteByArrival(res, cs, 1)

\* The responses the endpoint gives the requests of a batch.
ExecResponses ==
    {r \in Responses :
        \/ r.kind = "transport" /\ r.msg = "timed out"
        \/ r.kind = "http" /\ r.read_ok /\ r.status = 200
             /\ r.body = JsonBody(42)
        \/ r.kind = "http" /\ r.read_ok /\ r.status = 429
             /\ r.body = "overloaded"
        \/ r.kind = "http" /\ r.read_ok /\ r.status = 500
             /\ r.body = "overloaded"}

\* The futures buffer_unordered holds: created and not yet complete.
InProgress(t) == {i \in DOMAIN t : t[i].pc \in {"acquire", "await", "sleep"}}
\* The futures that hold a permit.
Holding(t) == {i \in DOMAIN t : t[i].pc \in {"await", "sleep"}}
Waiting(t) == {i \in DOMAIN t : t[i].pc = "acquire"}

Min(S) == CHOOSE x \in S : \A y \in S : x <= y

\* count_tokens from its first line to the first send().await.
StartCall == SendRequest(LoopHead(0))

\* An acquire that takes no permit off the semaphore.
PermitsAfterAdmit_NoTake(avail) == avail

\* The first poll of a new future: sem.acquire() and, with a permit, on
\* into count_tokens.
Admit(avail) ==
    IF avail > 0 THEN StartCall ELSE [IdleCall EXCEPT !.pc = "acquire"]
PermitsAfterAdmit(avail) == IF avail > 0 THEN avail - 1 ELSE avail

\* The future of index i returns (idx, result): its permit is dropped, and
\* goes to the longest-waiting future if one waits.
TasksAfterFinish(t, i, c) ==
    LET t1 == [t EXCEPT ![i] = c]
    IN  IF Waiting(t1) = {} THEN t1
        ELSE [t1 EXCEPT ![Min(Waiting(t1))] = StartCall]
\* A permit that is never given back.
PermitsAfterFinish_Leak(waiting, avail) == avail

PermitsAfterFinish(waiting, avail) ==
    IF waiting = 0 THEN avail + 1 ELSE avail

\* A write-back that stores a fresh mapping holding the remote count alone.
RECURSIVE WriteCounts_Replace(_, _)
WriteCounts_Replace(res, cs) ==
    IF cs = <<>> THEN res
    ELSE LET idx == Head(cs).idx
             r == Head(cs).result
         IN  WriteCounts_Replace(
                 IF r.tag = "Ok"
                 THEN [res EXCEPT ![idx].tokens =
                           Insert(EmptyMap, ClaudeId, Exact(r.value))]
                 ELSE res,
                 Tail(cs))

\* The loop "for (idx, result) in counts".
RECURSIVE WriteCounts(_, _)
WriteCounts(res, cs) ==
    IF cs = <<>> THEN res
    ELSE LET idx == Head(cs).idx
             r == Head(cs).result
         IN  WriteCounts(
                 IF r.tag = "Ok"
                 THEN [res EXCEPT ![idx].tokens =
                           Insert(@, ClaudeId, Exact(r.value))]
                 ELSE res,
                 Tail(cs))

ExecIdle ==
    /\ entries = <<>>
    /\ tokenizers = [local |-> <<>>, claude |-> None]
    /\ results = <<>>
    /\ phase = "idle"
    /\ localOut = <<>>
    /\ phase1 = <<>>
    /\ nextText = 0
    /\ task = <<>>
    /\ permits = 0
    /\ counts = <<>>

ExecInit ==
    /\ entries \in Batches
    /\ tokenizers \in ResolvedSets
    /\ results = <<>>
    /\ phase = "phase1"
    /\ localOut = <<>>
    /\ phase1 = <<>>
    /\ nextText = 0
    /\ task = [i \in 1..Len(entries) |-> IdleCall]
    /\ permits = 0
    /\ counts = <<>>

\* Phase 1 maps the closure over the entries in order: one entry a step.
Phase1Entry ==
    /\ ExecFrame
    /\ phase = "phase1"
    /\ Len(results) < Len(entries)
    /\ LET entry == entries[Len(results) + 1]
           ran == IF entry.kind = "Text" THEN LocalToks(tokenizers) ELSE {}
       IN  \E out \in [ran -> LocalOutcomes] :
               /\ results' = Append(results,
                                Phase1Result(entry, tokenizers.local, out))
               /\ localOut' = Append(localOut, out)
    /\ UNCHANGED <<entries, tokenizers, phase, phase1, nextText, task,
                   permits, counts>>

\* No remote counter: tokenize_entries returns what Phase 1 collected.
ReturnLocal ==
    /\ ExecFrame
    /\ phase = "phase1"
    /\ Len(results) = Len(entries)
    /\ ~tokenizers.claude.some
    /\ phase' = "done"
    /\ phase1' = results
    /\ UNCHANGED <<entries, tokenizers, results, localOut, nextText, task,
                   permits, counts>>

\* A remote counter: block_on(claude_tokenize_all(..)) creates the semaphore.
StartPhase2 ==
    /\ ExecFrame
    /\ phase = "phase1"
    /\ Len(results) = Len(entries)
    /\ tokenizers.claude.some
    /\ phase' = "phase2"
    /\ phase1' = results
    /\ permits' = SEMAPHORE_PERMITS
    /\ UNCHANGED <<entries, tokenizers, results, localOut, nextText, task,
                   counts>>

\* buffer_unordered takes the next index off the stream while it holds
\* fewer than its limit, and polls the new future.
Dispatch ==
    /\ ExecFrame
    /\ phase = "phase2"
    /\ nextText < Len(TextIndices(entries))
    /\ Cardinality(InProgress(task)) < BUFFER_UNORDERED
    /\ LET idx == TextIndices(entries)[nextText + 1]
       IN  /\ task' = [task EXCEPT ![idx] = Admit(permits)]
           /\ permits' = PermitsAfterAdmit(permits)
    /\ nextText' = nextText + 1
    /\ UNCHANGED <<entries, tokenizers, results, phase, localOut, phase1,
                   counts>>

\* The request of future i resolves.
TaskRespond(i) ==
    /\ ExecFrame
    /\ phase = "phase2"
    /\ task[i].pc = "await"
    /\ \E resp \in ExecResponses :
        LET c == OnResponse(task[i], resp)
        IN  IF c.pc = "done"
            THEN /\ task' = TasksAfterFinish(task, i, c)
                 /\ permits' = PermitsAfterFinish(Cardinality(Waiting(task)), permits)
                 /\ counts' = Append(counts, [idx |-> i, result |-> c.result])
            ELSE /\ task' = [task EXCEPT ![i] = c]
                 /\ UNCHANGED <<permits, counts>>
    /\ UNCHANGED <<entries, tokenizers, results, phase, localOut, phase1,
                   nextText>>

\* The backoff sleep of future i elapses.
TaskWake(i) ==
    /\ ExecFrame
    /\ phase = "phase2"
    /\ task[i].pc = "sleep"
    /\ LET c == OnWake(task[i])
       IN  IF c.pc = "done"
           THEN /\ task' = TasksAfterFinish(task, i, c)
                /\ permits' = PermitsAfterFinish(Cardinality(Waiting(task)), permits)
                /\ counts' = Append(counts, [idx |-> i, result |-> c.result])
           ELSE /\ task' = [task EXCEPT ![i] = SendRequest(c)]
                /\ UNCHANGED <<permits, counts>>
    /\ UNCHANGED <<entries, tokenizers, results, phase, localOut, phase1,
                   nextText>>

\* The stream is exhausted and collected: the counts are written back and
\* tokenize_entries returns.
WriteBack ==
    /\ ExecFrame
    /\ phase = "phase2"
    /\ nextText = Len(TextIndices(entries))
    /\ InProgress(task) = {}
    /\ results' = WriteCounts(results, counts)
    /\ phase' = "done"
    /\ UNCHANGED <<entries, tokenizers, localOut, phase1, nextText, task,
                   permits, counts>>

(***************************************************************************)
(* run.rs: claude_tokenize_all with more Text files than permits.  The     *)
(* futures are counted by stage instead of being told apart by index, so   *)
(* that the code's capacity of 20 is checked as it stands; a future's      *)
(* attempt number is not kept, so a sleeper may retry or give up.          *)
(***************************************************************************)

\* The most Text files of a batch here.
MaxTexts == 22

AdmitIdle == adm = [stage |-> "idle"]

AdmitInit ==
    \E n \in 0..MaxTexts :
        adm = [stage |-> "phase2", texts |-> n, pulled |-> 0, acquire |-> 0,
               await |-> 0, sleep |-> 0, done |-> 0,
               permits |-> SEMAPHORE_PERMITS]

\* A future returns: one more is done, and its permit goes to a waiting
\* future, which starts its call, or back to the semaphore.
AdmFinish(a) ==
    [a EXCEPT !.done = @ + 1,
              !.acquire = IF a.acquire > 0 THEN @ - 1 ELSE @,
              !.await = IF a.acquire > 0 THEN @ + 1 ELSE @,
              !.permits = PermitsAfterFinish(a.acquire, a.permits)]

AdmDispatch ==
    /\ AdmitFrame
    /\ adm.stage = "phase2"
    /\ adm.pulled < adm.texts
    /\ adm.acquire + adm.await + adm.sleep < BUFFER_UNORDERED
    /\ adm' = [adm EXCEPT
                 !.pulled = @ + 1,
                 !.await = IF Admit(adm.permits).pc = "await" THEN @ + 1
                           ELSE @,
                 !.acquire = IF Admit(adm.permits).pc = "acquire" THEN @ + 1
                             ELSE @,
                 !.permits = PermitsAfterAdmit(adm.permits)]

AdmRespond ==
    /\ AdmitFrame
    /\ adm.stage = "phase2"
    /\ adm.await > 0
    /\ \E resp \in ExecResponses :
        LET a == [adm EXCEPT !.await = @ - 1]
        IN  adm' = IF OnResponse(StartCall, resp).pc = "done"
                   THEN AdmFinish(a)
                   ELSE [a EXCEPT !.sleep = @ + 1]

AdmWake ==
    /\ AdmitFrame
    /\ adm.stage = "phase2"
    /\ adm.sleep > 0
    /\ \E attempt \in 0..(MAX_RETRIES - 1) :
        LET a == [adm EXCEPT !.sleep = @ - 1]
        IN  adm' = IF OnWake([StartCall EXCEPT !.attempt = attempt]).pc
                         = "done"
                   THEN AdmFinish(a)
                   ELSE [a EXCEPT !.await = @ + 1]

AdmWriteBack ==
    /\ AdmitFrame
    /\ adm.stage = "phase2"
    /\ adm.pulled = adm.texts
    /\ adm.acquire + adm.await + adm.sleep = 0
    /\ adm' = [adm EXCEPT !.stage = "done"]

(***************************************************************************)
(* main.rs: one invocation, from the credential to the last walk result    *)
(***************************************************************************)

\* Option::or
OptionOr(a, b) == IF a.some THEN a ELSE b

\* Result<String, TokenizeError> of select_api_key
KeyOk(k) == [tag |-> "Ok", key |-> k, err |-> NoErr]
KeyErr(e) == [tag |-> "Err", key |-> "", err |-> e]
NotLoaded == [tag |-> "NotLoaded", key |-> "", err |-> NoErr]

\* A selection that prefers the second candidate.
SelectApiKey_FallbackFirst(preferred, fallback) ==
    LET k == OptionOr(fallback, preferred)
    IN  IF k.some THEN KeyOk(k.v) ELSE KeyErr(ErrNoApiKey)

\* select_api_key: preferred.or(fallback).ok_or(NoApiKey)
SelectApiKey(preferred, fallback) ==
    LET k == OptionOr(preferred, fallback)
    IN  IF k.some THEN KeyOk(k.v) ELSE KeyErr(ErrNoApiKey)

\* remote::load_api_key: the two variables as std::env::var(..).ok() gives
\* them, TREETOK_API_KEY as the preferred one.
LoadApiKey(treetok, anthropic) == SelectApiKey(treetok, anthropic)

\* Result::ok, as resolve::load_api_key applies it.
ResultOk(r) == IF r.tag = "Ok" THEN Some(r.key) ELSE None

\* The values of the two variables: unset, set, and for the first one set
\* to the empty string.
TreetokValues == {None, Some(""), Some("treetok-key")}
AnthropicValues == {None, Some("anthropic-key")}

\* What walk_paths returns for the paths given: one entry list for each
\* path.
TextEntry(i) == [rel_path |-> i, kind |-> "Text", msg |-> ""]
ErrorEntry(i) == [rel_path |-> i, kind |-> "Error", msg |-> "permission denied"]
WalkResults ==
    {<< <<>> >>, << <<TextEntry(1)>> >>,
     << <<ErrorEntry(1), TextEntry(2)>>, <<TextEntry(1)>> >>}

\* A main that goes on to the walk whatever resolve_tokenizers returned.
OnResolved_IgnoreError(i, r) == [i EXCEPT !.pc = "walk"]

\* The match on the result of resolve_tokenizers: exit(UNAVAILABLE) on
\* NoApiKey, exit(USAGE) on any other error, on to the walk on Ok.
OnResolved(i, r) ==
    IF r.tag = "Err"
    THEN [i EXCEPT !.pc = "exit",
                   !.exit = IF r.err = ErrNoApiKey THEN "UNAVAILABLE"
                            ELSE "USAGE"]
    ELSE [i EXCEPT !.pc = "walk"]

MainIdle ==
    inv = [pc |-> "idle", explicit |-> <<>>, offline |-> FALSE,
           treetok |-> None, anthropic |-> None, o200k_ok |-> TRUE,
           loaded |-> NotLoaded, walks |-> <<>>, exit |-> "running",
           tokenized |-> 0]

MainInit ==
    inv \in [pc : {"start"}, explicit : SeqsUpTo(Names, MaxExplicit),
             offline : BOOLEAN, treetok : TreetokValues,
             anthropic : AnthropicValues, o200k_ok : BOOLEAN,
             loaded : {NotLoaded}, walks : {<<>>}, exit : {"running"},
             tokenized : {0}]

\* The credential is loaded unless --offline is given; the counters are
\* resolved and the result is matched.
MainResolve ==
    /\ MainFrame
    /\ inv.pc = "start"
    /\ LET loaded == IF inv.offline THEN NotLoaded
                     ELSE LoadApiKey(inv.treetok, inv.anthropic)
           api_key == IF inv.offline THEN None ELSE ResultOk(loaded)
           r == ResolveTokenizers(inv.explicit, inv.offline, api_key,
                                  inv.o200k_ok)
       IN  /\ rin' = [explicit |-> inv.explicit, offline |-> inv.offline,
                      api_key |-> api_key, o200k_ok |-> inv.o200k_ok]
           /\ rout' = r
           /\ inv' = OnResolved([inv EXCEPT !.loaded = loaded], r)
    /\ UNCHANGED <<entries, tokenizers, results, phase, localOut, phase1,
                   nextText, task, permits, counts>>

\* walk_paths
MainWalk ==
    /\ MainFrame
    /\ inv.pc = "walk"
    /\ \E w \in WalkResults : inv' = [inv EXCEPT !.pc = "loop", !.walks = w]
    /\ UNCHANGED <<rin, rout, entries, tokenizers, results, phase, localOut,
                   phase1, nextText, task, permits, counts>>

\* The loop over the walk results calls tokenize_entries with the next one
\* and the resolved counters.
MainTokenize ==
    /\ MainFrame
    /\ inv.pc = "loop"
    /\ inv.walks # <<>>
    /\ entries' = Head(inv.walks)
    /\ tokenizers' = [local |-> rout.local, claude |-> rout.claude]
    /\ results' = <<>>
    /\ phase' = "phase1"
    /\ localOut' = <<>>
    /\ phase1' = <<>>
    /\ nextText' = 0
    /\ task' = [i \in 1..Len(Head(inv.walks)) |-> IdleCall]
    /\ permits' = 0
    /\ counts' = <<>>
    /\ inv' = [inv EXCEPT !.pc = "tokenizing", !.tokenized = @ + 1]
    /\ UNCHANGED <<rin, rout>>

\* tokenize_entries has returned: the results are accumulated or written,
\* and a failed write ends the invocation with IOERR.
MainOutput ==
    /\ MainFrame
    /\ inv.pc = "tokenizing"
    /\ phase = "done"
    /\ entries' = <<>>
    /\ tokenizers' = [local |-> <<>>, claude |-> None]
    /\ results' = <<>>
    /\ phase' = "idle"
    /\ localOut' = <<>>
    /\ phase1' = <<>>
    /\ nextText' = 0
    /\ task' = <<>>
    /\ permits' = 0
    /\ counts' = <<>>
    /\ \E written \in BOOLEAN :
          inv' = IF ~written
                 THEN [inv EXCEPT !.pc = "exit", !.exit = "IOERR"]
                 ELSE IF Tail(inv.walks) = <<>>
                 THEN [inv EXCEPT !.pc = "exit", !.exit = "OK",
                                  !.walks = <<>>]
                 ELSE [inv EXCEPT !.pc = "loop", !.walks = Tail(@)]
    /\ UNCHANGED <<rin, rout>>

(***************************************************************************)
(* local.rs: CtocTokenizer::count_tokens                                   *)
(***************************************************************************)

\* The longest text, the longest vocabulary entry and the most entries of a
\* vocabulary here.
MaxTextLen == 4
MaxPatLen == 3
MaxVocab == 2

\* Bytes: two of them, "a" and "b".
Alphabet == {97, 98}

\* The patterns CtocTokenizer::new reads from the vocabulary table, and the
\* vocabularies built of them.
Patterns == UNION {[1..k -> Alphabet] : k \in 1..MaxPatLen}
Vocabularies ==
    {{}} \cup {{f[i] : i \in 1..MaxVocab} : f \in [1..MaxVocab -> Patterns]}
Texts == UNION {[1..k -> Alphabet] : k \in 0..MaxTextLen}

\* The patterns that match the bytes at offset i (0-based, as the offsets
\* of a Match are).
MatchesAt(vocab, bytes, i) ==
    {p \in vocab : /\ i + Len(p) <= Len(bytes)
                   /\ SubSeq(bytes, i + 1, i + Len(p)) = p}

\* The offsets at or after from where some pattern matches.
MatchStarts(vocab, bytes, from) ==
    {i \in from..(Len(bytes) - 1) : MatchesAt(vocab, bytes, i) # {}}

\* The next item of ac.find_iter(bytes) under MatchKind::LeftmostLongest,
\* searching from offset from: the match that starts first and, of those,
\* the longest. Called only when there is one.
NextMatch(vocab, bytes, from) ==
    LET start == CHOOSE i \in MatchStarts(vocab, bytes, from) :
                    \A j \in MatchStarts(vocab, bytes, from) : i <= j
        longest == CHOOSE p \in MatchesAt(vocab, bytes, start) :
                      \A q \in MatchesAt(vocab, bytes, start) :
                          Len(q) <= Len(p)
    IN  [start |-> start, end |-> start + Len(longest)]

\* A loop body that counts the match and not the gap before it.
AfterMatch_NoGap(s, mat) ==
    [s EXCEPT !.tokens = @ + 1, !.prev_end = mat.end]

\* The body of the loop over the matches.
AfterMatch(s, mat) ==
    [s EXCEPT !.tokens = @ + (mat.start - s.prev_end) + 1,
              !.prev_end = mat.end]

\* A return that leaves the trailing unmatched bytes uncounted.
AfterLoop_NoTrailing(s) == [s EXCEPT !.pc = "done"]

\* After the loop: the trailing bytes, and Ok(tokens).
AfterLoop(s) ==
    [s EXCEPT !.tokens = @ + (Len(s.text) - s.prev_end), !.pc = "done"]

CtocIdle ==
    seg = [pc |-> "idle", vocab |-> {}, text |-> <<>>, tokens |-> 0,
           prev_end |-> 0]

CtocInit ==
    seg \in [pc : {"scan"}, vocab : Vocabularies, text : Texts,
             tokens : {0}, prev_end : {0}]

\* find_iter yields a match: one pass of the loop body.
CtocMatch ==
    /\ CtocFrame
    /\ seg.pc = "scan"
    /\ MatchStarts(seg.vocab, seg.text, seg.prev_end) # {}
    /\ seg' = AfterMatch(seg, NextMatch(seg.vocab, seg.text, seg.prev_end))

\* find_iter is exhausted: the trailing bytes are counted and the call
\* returns.
CtocReturn ==
    /\ CtocFrame
    /\ seg.pc = "scan"
    /\ MatchStarts(seg.vocab, seg.text, seg.prev_end) = {}
    /\ seg' = AfterLoop(seg)

(***************************************************************************)
(* mod.rs: TokenCount::from_approx over a range of raw counts              *)
(***************************************************************************)

\* The largest raw count here.
MaxRaw == 1000

ApproxIdle == fa = [pc |-> "idle", raw |-> 0, out |-> Exact(0)]

ApproxInit == fa \in [pc : {"call"}, raw : 0..MaxRaw, out : {Exact(0)}]

FromApproxCall ==
    /\ ApproxFrame
    /\ fa.pc = "call"
    /\ fa' = [fa EXCEPT !.pc = "done", !.out = FromApprox(fa.raw)]

(***************************************************************************)
(* output/mod.rs: accumulate_totals                                        *)
(***************************************************************************)

\* The most FileResults of a run here.
MaxFiles == 2

\* An add whose Approx arm forgets the upper bound.
Add_LowerBoundOnly(a, b) ==
    IF a.tag = "Exact" /\ b.tag = "Exact" THEN Exact(a.lo + b.lo)
    ELSE IF a.tag = "Approx" /\ b.tag = "Approx"
    THEN Approx(a.lo + b.lo, a.hi)
    ELSE a

\* An add that widens across variants instead of doing nothing.
Add_Mixed(a, b) ==
    IF a.tag = "Exact" /\ b.tag = "Exact" THEN Exact(a.lo + b.lo)
    ELSE Approx(a.lo + b.lo, a.hi + b.hi)

\* TokenCount::add: self after self.add(other).
Add(a, b) ==
    IF a.tag = "Exact" /\ b.tag = "Exact" THEN Exact(a.lo + b.lo)
    ELSE IF a.tag = "Approx" /\ b.tag = "Approx"
    THEN Approx(a.lo + b.lo, a.hi + b.hi)
    ELSE a

\* A loop body whose Occupied arm replaces the total by the file's count.
AccumulateEntry_Replace(totals, tokens) ==
    [k \in (DOMAIN totals) \cup (DOMAIN tokens) |->
        IF k \in DOMAIN tokens THEN tokens[k] ELSE totals[k]]

\* The body of the outer loop for one FileResult: every (name, count) of
\* its map is added to an occupied entry of totals or inserted into a
\* vacant one. The names of one map are distinct.
AccumulateEntry(totals, tokens) ==
    [k \in (DOMAIN totals) \cup (DOMAIN tokens) |->
        IF k \in DOMAIN tokens
        THEN IF k \in DOMAIN totals THEN Add(totals[k], tokens[k])
             ELSE tokens[k]
        ELSE totals[k]]

\* accumulate_totals(entries, totals), the entries given by their maps.
RECURSIVE AccumulateTotals(_, _)
AccumulateTotals(es, totals) ==
    IF es = <<>> THEN totals
    ELSE AccumulateTotals(Tail(es), AccumulateEntry(totals, Head(es)))

\* The FileResult::tokens maps of the model: two identities, each absent or
\* with one of four counts.
TotalKeys == {O200k, Ctoc}
CountValues == {Exact(100), Exact(200), FromApprox(100), FromApprox(200)}
TokenMaps == UNION {[ks -> CountValues] : ks \in SUBSET TotalKeys}

TotalsIdle ==
    tot = [pc |-> "idle", files |-> <<>>, calls |-> <<>>, totals |-> EmptyMap]

\* The runs: the files in some order, cut into two successive calls on the
\* same totals map (either may be empty).
TotalsInit ==
    \E n \in 0..MaxFiles :
        \E f \in [1..n -> TokenMaps] :
            \E c \in 0..n :
                tot = [pc |-> "run", files |-> f,
                       calls |-> <<SubSeq(f, 1, c), SubSeq(f, c + 1, n)>>,
                       totals |-> EmptyMap]

\* One call of accumulate_totals, with the next list of FileResults.
AccumulateCall ==
    /\ TotalsFrame
    /\ tot.pc = "run"
    /\ tot.calls # <<>>
    /\ tot' = [tot EXCEPT !.totals = AccumulateTotals(Head(tot.calls), @),
                          !.calls = Tail(@)]

\* The loop over the walk results is over: the totals are printed.
TotalsPrinted ==
    /\ TotalsFrame
    /\ tot.pc = "run"
    /\ tot.calls = <<>>
    /\ tot' = [tot EXCEPT !.pc = "done"]

(***************************************************************************)
(* Specifications                                                          *)
(***************************************************************************)

Init == RetryIdle /\ ResolveIdle /\ ExecInit /\ AdmitIdle /\ MainIdle /\ CtocIdle
    /\ ApproxIdle /\ TotalsIdle
Next ==
    \/ Phase1Entry
    \/ ReturnLocal
    \/ StartPhase2
    \/ Dispatch
    \/ \E i \in DOMAIN task : TaskRespond(i)
    \/ \E i \in DOMAIN task : TaskWake(i)
    \/ WriteBack
Spec == Init /\ [][Next]_vars

\* claude_tokenize_all from its first line, under the runtime's scheduling.
\* Phase 1 is over and every local counter has returned Ok, as O200kTokenizer
\* and CtocTokenizer always do.  block_on polls every future that is ready,
\* so the stream is pulled and collected; a sleep of tokio::time elapses;
\* and every request that was sent resolves, to a response or to a transport
\* failure.
Phase2Init ==
    /\ entries \in Batches
    /\ tokenizers \in {rs \in ResolvedSets : rs.claude.some}
    /\ \E n \in RawCounts :
           localOut = [i \in 1..Len(entries) |->
                          [t \in IF entries[i].kind = "Text"
                                 THEN LocalToks(tokenizers) ELSE {} |-> Ok(n)]]
    /\ results = [i \in 1..Len(entries) |->
                     Phase1Result(entries[i], tokenizers.local, localOut[i])]
    /\ phase = "phase2"
    /\ phase1 = results
    /\ nextText = 0
    /\ task = [i \in 1..Len(entries) |-> IdleCall]
    /\ permits = SEMAPHORE_PERMITS
    /\ counts = <<>>
InitLive == RetryIdle /\ ResolveIdle /\ Phase2Init /\ AdmitIdle /\ MainIdle /\ CtocIdle
    /\ ApproxIdle /\ TotalsIdle
NextLive ==
    \/ Dispatch
    \/ \E i \in DOMAIN task : TaskRespond(i)
    \/ \E i \in DOMAIN task : TaskWake(i)
    \/ WriteBack
Fairness ==
    /\ WF_vars(Dispatch)
    /\ WF_vars(\E i \in DOMAIN task : TaskRespond(i))
    /\ WF_vars(\E i \in DOMAIN task : TaskWake(i))
    /\ WF_vars(WriteBack)
SpecLive == InitLive /\ [][NextLive]_vars /\ Fairness

InitRetry == RetryInit /\ ResolveIdle /\ ExecIdle /\ AdmitIdle /\ MainIdle /\ CtocIdle
    /\ ApproxIdle /\ TotalsIdle
NextRetry == RetrySend \/ RetryRespond \/ RetryWake
SpecRetry == InitRetry /\ [][NextRetry]_vars

InitResolve == RetryIdle /\ ResolveInit /\ ExecIdle /\ AdmitIdle /\ MainIdle /\ CtocIdle
    /\ ApproxIdle /\ TotalsIdle
NextResolve == ResolveCall
SpecResolve == InitResolve /\ [][NextResolve]_vars

InitAdmit == RetryIdle /\ ResolveIdle /\ ExecIdle /\ AdmitInit /\ MainIdle /\ CtocIdle
    /\ ApproxIdle /\ TotalsIdle
NextAdmit == AdmDispatch \/ AdmRespond \/ AdmWake \/ AdmWriteBack
SpecAdmit == InitAdmit /\ [][NextAdmit]_vars

InitMain ==
    RetryIdle /\ ResolveIdle /\ ExecIdle /\ AdmitIdle /\ MainInit /\ CtocIdle
    /\ ApproxIdle /\ TotalsIdle
NextMain ==
    \/ MainResolve
    \/ MainWalk
    \/ MainTokenize
    \/ Phase1Entry
    \/ ReturnLocal
    \/ StartPhase2
    \/ Dispatch
    \/ \E i \in DOMAIN task : TaskRespond(i)
    \/ \E i \in DOMAIN task : TaskWake(i)
    \/ WriteBack
    \/ MainOutput
SpecMain == InitMain /\ [][NextMain]_vars

InitCtoc ==
    RetryIdle /\ ResolveIdle /\ ExecIdle /\ AdmitIdle /\ MainIdle /\ CtocInit
    /\ ApproxIdle /\ TotalsIdle
NextCtoc == CtocMatch \/ CtocReturn
SpecCtoc == InitCtoc /\ [][NextCtoc]_vars

InitApprox ==
    RetryIdle /\ ResolveIdle /\ ExecIdle /\ AdmitIdle /\ MainIdle /\ CtocIdle
    /\ ApproxInit /\ TotalsIdle
NextApprox == FromApproxCall
SpecApprox == InitApprox /\ [][NextApprox]_vars

InitTotals ==
    RetryIdle /\ ResolveIdle /\ ExecIdle /\ AdmitIdle /\ MainIdle /\ CtocIdle
    /\ ApproxIdle /\ TotalsInit
NextTotals == AccumulateCall \/ TotalsPrinted
SpecTotals == InitTotals /\ [][NextTotals]_vars


(***************************************************************************)
(* Properties of count_tokens, checked under SpecRetry                     *)
(***************************************************************************)

Is429(r) == r.kind = "http" /\ r.status = 429
IsOtherStatus(r) == r.kind = "http" /\ r.status \notin {200, 429}
IsGood200(r) ==
    /\ r.kind = "http"
    /\ r.status = 200
    /\ r.read_ok
    /\ \E v \in RemoteCounts : r.body = JsonBody(v)
IsBad200(r) == r.kind = "http" /\ r.status = 200 /\ ~IsGood200(r)
Last(q) == q[Len(q)]

\* The response at place j of the call ended it there and then: the call
\* has returned, nothing was received or sent after it, and the only sleeps
\* are those of the responses before it.
EndedAt(j) ==
    /\ j = Len(resps)
    /\ call.pc = "done"
    /\ sent = j
    /\ Len(slept) = j - 1

\* C1: one call sends at most 3 requests, in attempts 0, 1 and 2; it returns
\* RateLimitExceeded when all three responses were HTTP 429, and in no other
\* case.
C1_AtMostThreeRequests ==
    /\ sent <= 3
    /\ Len(resps) <= sent
    /\ call.pc \in {"send", "await", "sleep"} => call.attempt \in {0, 1, 2}
    /\ call.pc \in {"await", "sleep"} => sent = call.attempt + 1
    /\ call.pc = "done" =>
        (call.result = Err(ErrRateLimitExceeded)
            <=> (Len(resps) = 3 /\ \A j \in 1..3 : Is429(resps[j])))

C1_Witness ==
    /\ call.pc = "done"
    /\ call.result = Err(ErrRateLimitExceeded)
    /\ sent = 3
    /\ \A j \in 1..3 : Is429(resps[j])

\* C2: k responses of 429 (k = 0, 1, 2) and then a 200 with the body
\* {"input_tokens": v} give Ok(v) after k + 1 requests and exactly k sleeps,
\* of 1 s, 2 s, ... 2^(k-1) s.
C2_OkAfterBackoff ==
    (resps # <<>> /\ IsGood200(Last(resps))) =>
        LET k == Len(resps) - 1
        IN  /\ k \in {0, 1, 2}
            /\ \A j \in 1..k : Is429(resps[j])
            /\ call.pc = "done"
            /\ call.result.tag = "Ok"
            /\ Last(resps).body = JsonBody(call.result.value)
            /\ sent = k + 1
            /\ slept = [j \in 1..k |-> 2 ^ (j - 1)]

C2_Witness ==
    /\ Len(resps) = 3
    /\ Is429(resps[1]) /\ Is429(resps[2])
    /\ resps[3].status = 200 /\ resps[3].body = "{\"input_tokens\": 42}"
    /\ call.pc = "done"
    /\ call.result = Ok(42)
    /\ slept = <<1, 2>>

\* C3 as claimed: a response with a status other than 200 and 429 ends the
\* call at once with ApiError carrying that status and the body of the
\* response as the server sent it.
C3_ApiErrorVerbatim ==
    \A j \in 1..Len(resps) :
        IsOtherStatus(resps[j]) =>
            /\ EndedAt(j)
            /\ call.result = Err(ErrApiError(resps[j].status, resps[j].body))

\* C3 as the code has it: a response with a status other than 200 and 429
\* ends the call at once, with no further request and no sleep, with
\* ApiError carrying that status and the body of the response when the body
\* could be read, and the empty string when reading it failed.
C3_ApiErrorBodyAsRead ==
    \A j \in 1..Len(resps) :
        IsOtherStatus(resps[j]) =>
            /\ EndedAt(j)
            /\ call.result.tag = "Err"
            /\ call.result.err.kind = "ApiError"
            /\ call.result.err.status = resps[j].status
            /\ resps[j].read_ok => call.result.err.body = resps[j].body
            /\ ~resps[j].read_ok => call.result.err.body = ""

C3_Witness ==
    /\ Len(resps) = 2
    /\ Is429(resps[1])
    /\ resps[2].status = 500 /\ resps[2].read_ok
    /\ call.result = Err(ErrApiError(500, "overloaded"))
    /\ sent = 2
    /\ slept = <<1>>

\* C4: a transport failure of the send ends the call at once with Network
\* carrying the failure's message, and a 200 whose body cannot be parsed ends
\* it at once with Parse; neither is followed by a sleep or another request,
\* also after earlier 429s.
C4_NetworkAndParseNotRetried ==
    \A j \in 1..Len(resps) :
        /\ resps[j].kind = "transport" =>
            /\ EndedAt(j)
            /\ call.result = Err(ErrNetwork(resps[j].msg))
        /\ IsBad200(resps[j]) =>
            /\ EndedAt(j)
            /\ call.result.tag = "Err"
            /\ call.result.err.kind = "Parse"
            /\ call.result.err.msg # ""

C4_Witness ==
    /\ Len(resps) = 2
    /\ Is429(resps[1])
    /\ IsBad200(resps[2])
    /\ call.pc = "done"
    /\ call.result.err.kind = "Parse"
    /\ sent = 2

(***************************************************************************)
(* Properties of claude_tokenize_all's admission, checked under SpecAdmit  *)
(***************************************************************************)

AdmHolding == adm.await + adm.sleep
AdmStarted == adm.pulled - adm.acquire

\* C5: at most 20 requests are in flight, each holding one of the 20
\* permits, sleepers in backoff included; the 21st request has not started
\* before one of the running ones has completed, and with 20 in flight no
\* further request can start.
C5_AtMostTwentyInFlight ==
    /\ AdmHolding <= 20
    /\ adm.permits = 20 - AdmHolding
    /\ AdmStarted >= 21 => adm.done >= 1
    /\ AdmStarted = AdmHolding + adm.done
    /\ AdmHolding = 20 => ~ENABLED AdmDispatch

C5_Witness ==
    /\ adm.texts >= 21
    /\ adm.pulled = 20
    /\ AdmHolding = 20
    /\ adm.sleep >= 1
    /\ adm.done = 0
    /\ adm.permits = 0

(***************************************************************************)
(* Properties of tokenize_entries, checked under Spec                      *)
(***************************************************************************)

Done == phase = "done"
RemoteActive == tokenizers.claude.some
IsText(i) == entries[i].kind = "Text"
Keys(i) == DOMAIN results[i].tokens
TextSet == {i \in 1..Len(entries) : IsText(i)}
Collected == {counts[j].idx : j \in 1..Len(counts)}

\* C6: the count returned for the request of index i is collected once and
\* for a Text index only, and the final vector is Phase 1's vector with
\* Exact(n) under the remote key at every index whose request returned Ok(n):
\* a function of what each request returned, not of the order of completion.
C6_ResultsIndependentOfOrder ==
    /\ \A j \in 1..Len(counts) :
        /\ IsText(counts[j].idx)
        /\ counts[j].result.tag # "Pending"
        /\ counts[j].result = task[counts[j].idx].result
    /\ \A j, k \in 1..Len(counts) : counts[j].idx = counts[k].idx => j = k
    /\ (Done /\ RemoteActive) =>
        /\ Collected = TextSet
        /\ results =
             [i \in 1..Len(entries) |->
                IF task[i].result.tag = "Ok"
                THEN [phase1[i] EXCEPT !.tokens =
                         Insert(@, "claude", Exact(task[i].result.value))]
                ELSE phase1[i]]

C6_Witness ==
    /\ Done
    /\ Len(counts) = 2
    /\ counts[1].idx > counts[2].idx
    /\ counts[1].result.tag = "Ok"
    /\ counts[2].result.tag = "Err"
    /\ "claude" \in Keys(counts[1].idx)
    /\ "claude" \notin Keys(counts[2].idx)

\* C7: one FileResult per FileEntry, in input order, with the entry's
\* rel_path and classification (an Error's message included); a result that
\* is not Text has an empty count mapping, with or without a remote counter.
C7_OneResultPerEntry ==
    /\ Len(results) <= Len(entries)
    /\ Done => Len(results) = Len(entries)
    /\ \A i \in 1..Len(results) :
        /\ results[i].rel_path = entries[i].rel_path
        /\ results[i].kind = entries[i].kind
        /\ results[i].msg = entries[i].msg
        /\ ~IsText(i) => Keys(i) = {}

C7_Witness ==
    /\ Done
    /\ RemoteActive
    /\ \E i \in 1..Len(results) :
        results[i].kind = "Error" /\ results[i].msg = "permission denied"
    /\ \E i \in 1..Len(results) : IsText(i) /\ "claude" \in Keys(i)

\* C8: for a Text file, a local counter that returned Ok(n) has its entry
\* under its own key: Approx(from_approx(n)) for ctoc, whose is_approximate()
\* is true, and Exact(n) for o200k, whose is_approximate() is false.
C8_ExactOrApproxByFlag ==
    /\ IsApproximate("ctoc")
    /\ ~IsApproximate("o200k")
    /\ \A i \in 1..Len(results) :
        IsText(i) =>
            \A tok \in LocalToks(tokenizers) :
                localOut[i][tok].tag = "Ok" =>
                    /\ tok \in Keys(i)
                    /\ results[i].tokens[tok] =
                         IF tok = "ctoc"
                         THEN FromApprox(localOut[i][tok].value)
                         ELSE Exact(localOut[i][tok].value)

C8_Witness ==
    /\ Len(results) >= 1
    /\ IsText(1)
    /\ Keys(1) = {"ctoc", "o200k"}
    /\ localOut[1]["ctoc"] = Ok(5)
    /\ results[1].tokens["ctoc"] = Approx(2, 8)
    /\ results[1].tokens["o200k"] = Exact(5)

\* C9: in a Text file's mapping a key is absent exactly when its counter is
\* not active or failed on that file, and a key that is present holds the
\* value of its own counter's count, whatever the other counters and files
\* did; the batch never stops before it returns, and a Text file whose
\* counters all failed is returned as Text with an empty mapping.
C9_FailureIsLocal ==
    /\ \A i \in 1..Len(results) :
        IsText(i) =>
            /\ results[i].kind = "Text"
            /\ \A tok \in {"o200k", "ctoc"} :
                /\ tok \in Keys(i) <=>
                      (tok \in LocalToks(tokenizers)
                          /\ localOut[i][tok].tag = "Ok")
                /\ tok \in Keys(i) =>
                      results[i].tokens[tok] \in
                          {Exact(localOut[i][tok].value),
                           FromApprox(localOut[i][tok].value)}
            /\ "claude" \in Keys(i) <=>
                  (Done /\ RemoteActive /\ task[i].result.tag = "Ok")
            /\ "claude" \in Keys(i) =>
                  results[i].tokens["claude"] = Exact(task[i].result.value)
    /\ Done => Len(results) = Len(entries)
    /\ ~Done => ENABLED Next

C9_Witness ==
    /\ Done
    /\ RemoteActive
    /\ LocalToks(tokenizers) # {}
    /\ \E i, j \in 1..Len(results) :
        /\ IsText(i) /\ Keys(i) = {}
        /\ localOut[i] # EmptyMap
        /\ task[i].result.tag = "Err"
        /\ IsText(j) /\ Cardinality(Keys(j)) = 2

(***************************************************************************)
(* Properties of resolve_tokenizers, checked under SpecResolve             *)
(***************************************************************************)

Called == rout.tag # "NotCalled"
AutoCall == Called /\ rin.explicit = <<>>

\* What C10 says the call returns.
AutoModeSet ==
    /\ rout.tag = "Ok"
    /\ rout.local # <<>>
    /\ rout.local[1] = "o200k"
    /\ rout.claude.some <=> (~rin.offline /\ rin.api_key.some)
    /\ (Len(rout.local) >= 2 /\ rout.local[2] = "ctoc") <=> ~rout.claude.some
    /\ (rin.offline \/ ~rin.api_key.some) =>
          (rout.local = <<"o200k", "ctoc">> /\ ~rout.claude.some)
    /\ (~rin.offline /\ rin.api_key.some) =>
          (rout.local = <<"o200k">> /\ rout.claude = rin.api_key)

\* C10 as claimed: with an empty explicit list the call returns o200k as the
\* first local counter, the remote counter exactly when not offline and a
\* key is given, and ctoc as the second local counter exactly when the
\* remote counter is not active.
C10_AutoModeSet == AutoCall => AutoModeSet

\* C10 as the code has it: the same, when O200kTokenizer::new() succeeds;
\* when it fails, the call returns its Init error and no counters.
C10_AutoModeSetIfO200kLoads ==
    AutoCall =>
        /\ rin.o200k_ok => AutoModeSet
        /\ ~rin.o200k_ok =>
              (rout.tag = "Err" /\ rout.err.kind = "Init" /\ Count(rout) = 0)

C10_Witness ==
    /\ AutoCall
    /\ rin.offline
    /\ rin.api_key.some
    /\ rout.tag = "Ok"
    /\ rout.local = <<"o200k", "ctoc">>
    /\ ~rout.claude.some

\* C11 as claimed: with an empty explicit list the call never returns an
\* error and never returns zero counters, whatever offline and the key are.
C11_AutoModeNeverErrors ==
    AutoCall => (rout.tag = "Ok" /\ Count(rout) >= 1)

\* C11 as the code has it: with an empty explicit list the call returns an
\* error exactly when O200kTokenizer::new() fails, and that error is its
\* Init error; every Ok result holds two counters, never zero.
C11_AutoModeErrorsOnlyOnO200kInit ==
    AutoCall =>
        /\ rout.tag = "Err" <=> ~rin.o200k_ok
        /\ rout.tag = "Err" => rout.err = O200kInitError
        /\ rout.tag = "Ok" => Count(rout) = 2

C11_Witness ==
    /\ AutoCall
    /\ rin.o200k_ok
    /\ ~rin.offline
    /\ ~rin.api_key.some
    /\ rout.tag = "Ok"
    /\ Count(rout) = 2

HasNote == \E j \in 1..Len(rout.diag) : rout.diag[j] = NoteNoKey
HasFallback == \E j \in 1..Len(rout.local) : rout.local[j] = "ctoc"

ExplicitCall == Called /\ rin.explicit # <<>>
IsLocalKey(n) == n \in {"o200k", "ctoc"}
IsRemoteKey(n) == n = "claude"
IsUnknownKey(n) == ~IsLocalKey(n) /\ ~IsRemoteKey(n)
Requested(n) == \E j \in 1..Len(rin.explicit) : rin.explicit[j] = n
IsWarnUnknown(d) == d = WarnUnknown
IsWarnOffline(d) == d = WarnOffline
NoValidTokenizers == ErrInit("no valid tokenizers available")

\* The lists C13 speaks of: local and unknown keys only, one local at least;
\* and the lists from which nothing is constructed.
LocalAndUnknownOnly ==
    /\ \E j \in 1..Len(rin.explicit) : IsLocalKey(rin.explicit[j])
    /\ \A j \in 1..Len(rin.explicit) : ~IsRemoteKey(rin.explicit[j])
NothingConstructible ==
    \A j \in 1..Len(rin.explicit) :
        \/ IsUnknownKey(rin.explicit[j])
        \/ IsRemoteKey(rin.explicit[j]) /\ rin.offline

\* The outcome C13 gives a list of local and unknown keys: Ok with the local
\* keys of the list, in order, as the only counters, and one warning for
\* each unknown key.
RecognizedOnlyActive ==
    /\ rout.tag = "Ok"
    /\ rout.local = SelectSeq(rin.explicit, IsLocalKey)
    /\ ~rout.claude.some
    /\ Len(SelectSeq(rout.diag, IsWarnUnknown)) =
           Len(SelectSeq(rin.explicit, IsUnknownKey))

\* C13 as claimed: in explicit mode a list of unknown keys and at least one
\* local key succeeds with the local keys only, each unknown key skipped
\* with a warning; a list from which no counter is constructed fails with
\* Init("no valid tokenizers available").
C13_UnknownSkipped ==
    ExplicitCall =>
        /\ LocalAndUnknownOnly => RecognizedOnlyActive
        /\ NothingConstructible =>
              (rout.tag = "Err" /\ rout.err = NoValidTokenizers)

\* C13 as the code has it: the same, except that a list asking for o200k
\* fails with the Init error of O200kTokenizer::new() when that fails; an
\* unknown key is never the cause of a failure.
C13_UnknownSkippedIfO200kLoads ==
    ExplicitCall =>
        /\ (LocalAndUnknownOnly /\ (rin.o200k_ok \/ ~Requested("o200k")))
              => RecognizedOnlyActive
        /\ (LocalAndUnknownOnly /\ ~rin.o200k_ok /\ Requested("o200k"))
              => (rout.tag = "Err" /\ rout.err = O200kInitError)
        /\ NothingConstructible =>
              (rout.tag = "Err" /\ rout.err = NoValidTokenizers)
        /\ rout.tag = "Err" =>
              rout.err \in {NoValidTokenizers, O200kInitError, ErrNoApiKey}

C13_Witness ==
    /\ ExplicitCall
    /\ rin.explicit = <<"o200k", "gpt2">>
    /\ rout.tag = "Ok"
    /\ rout.local = <<"o200k">>
    /\ rout.diag = <<WarnUnknown>>

\* The place of the first request for the key n in a list that has one.
FirstIndex(n) ==
    CHOOSE j \in 1..Len(rin.explicit) :
        /\ rin.explicit[j] = n
        /\ \A i \in 1..(j - 1) : rin.explicit[i] # n

\* What C14 says of a list that requests the remote key: skipped with one
\* warning for each request when offline, active when not offline and a key
\* is given, NoApiKey when not offline and no key is given.
RemoteKeyHandled ==
    /\ rin.offline =>
          /\ ~rout.claude.some
          /\ Len(SelectSeq(rout.diag, IsWarnOffline)) =
                 Len(SelectSeq(rin.explicit, IsRemoteKey))
          /\ rout.tag = "Err" => rout.err = NoValidTokenizers
    /\ (~rin.offline /\ rin.api_key.some) =>
          (rout.tag = "Ok" /\ rout.claude = rin.api_key)
    /\ (~rin.offline /\ ~rin.api_key.some) =>
          (rout.tag = "Err" /\ rout.err = ErrNoApiKey)

\* C14 as claimed: the remote key of an explicit list is handled that way
\* wherever it stands and whatever local keys stand before or after it.
C14_RemoteKeyAnywhere ==
    (ExplicitCall /\ Requested("claude")) => RemoteKeyHandled

\* C14 as the code has it: the same, when the list does not request o200k
\* or O200kTokenizer::new() succeeds. When it fails, the resolution fails:
\* with NoApiKey if offline is false, no key is given and the remote key
\* stands before the first o200k, with the Init error of the constructor
\* otherwise.
C14_RemoteKeyAnywhereIfO200kLoads ==
    (ExplicitCall /\ Requested("claude")) =>
        /\ (rin.o200k_ok \/ ~Requested("o200k")) => RemoteKeyHandled
        /\ (~rin.o200k_ok /\ Requested("o200k")) =>
              /\ rout.tag = "Err"
              /\ rout.err \in {ErrNoApiKey, O200kInitError}
              /\ rout.err = ErrNoApiKey <=>
                    /\ ~rin.offline
                    /\ ~rin.api_key.some
                    /\ FirstIndex("claude") < FirstIndex("o200k")

C14_Witness ==
    /\ ExplicitCall
    /\ rin.explicit = <<"ctoc", "claude">>
    /\ ~rin.offline
    /\ ~rin.api_key.some
    /\ rout.tag = "Err"
    /\ rout.err = ErrNoApiKey

\* The call asked for the same recognized key twice and nothing else, the
\* remote key with a key given and offline false.
TwiceRequested(k) ==
    /\ ExplicitCall
    /\ rin.explicit = <<k, k>>
    /\ IsRemoteKey(k) => (~rin.offline /\ rin.api_key.some)

\* C15 as claimed: each of o200k, ctoc and the remote key, requested twice,
\* is constructed twice and the resolved set holds both: count() is 2.
C15_TwiceGivesTwo ==
    \A k \in {"o200k", "ctoc", "claude"} :
        TwiceRequested(k) =>
            /\ rout.tag = "Ok"
            /\ Count(rout) = 2
            /\ IsLocalKey(k) => rout.local = <<k, k>>

\* C15 as the code has it: a local key requested twice is pushed twice, so
\* count() is 2 (for o200k when O200kTokenizer::new() succeeds, its Init
\* error otherwise); the remote key requested twice is assigned twice to
\* the one Option, so count() is 1. In every Ok result the local counters
\* are the local keys of the list, one for each request, in order.
C15_LocalTwiceGivesTwo ==
    /\ \A k \in {"o200k", "ctoc"} :
          TwiceRequested(k) =>
              IF k = "ctoc" \/ rin.o200k_ok
              THEN /\ rout.tag = "Ok"
                   /\ rout.local = <<k, k>>
                   /\ ~rout.claude.some
                   /\ Count(rout) = 2
              ELSE rout.tag = "Err" /\ rout.err = O200kInitError
    /\ TwiceRequested("claude") =>
          /\ rout.tag = "Ok"
          /\ rout.local = <<>>
          /\ rout.claude = rin.api_key
          /\ Count(rout) = 1
    /\ (ExplicitCall /\ rout.tag = "Ok") =>
          rout.local = SelectSeq(rin.explicit, IsLocalKey)

C15_Witness ==
    /\ TwiceRequested("o200k")
    /\ rout.tag = "Ok"
    /\ rout.local = <<"o200k", "o200k">>
    /\ Count(rout) = 2

\* C16: every Ok result of resolve_tokenizers, in range or explicit mode,
\* has count() >= 1: at least one local counter or the remote counter.
C16_OkHasCounter ==
    (Called /\ rout.tag = "Ok") =>
        /\ Count(rout) >= 1
        /\ rout.local # <<>> \/ rout.claude.some

C16_Witness ==
    /\ ExplicitCall
    /\ rin.explicit = <<"gpt2", "claude">>
    /\ rout.tag = "Ok"
    /\ rout.local = <<>>
    /\ Count(rout) = 1

(***************************************************************************)
(* Properties of main, checked under SpecMain                              *)
(***************************************************************************)

MainResolved == inv.pc \notin {"idle", "start"}
NoFileWork ==
    /\ inv.tokenized = 0
    /\ phase = "idle"
    /\ entries = <<>>
    /\ results = <<>>
    /\ localOut = <<>>
    /\ task = <<>>
    /\ counts = <<>>

\* C17: when resolve_tokenizers fails, with Init or NoApiKey, main exits at
\* once (UNAVAILABLE for NoApiKey, USAGE otherwise): tokenize_entries is
\* never called, so no local counter runs on any file and no remote request
\* is sent; file work begins only after an Ok.
C17_ResolverErrorAbortsBeforeFiles ==
    /\ rout.tag = "Err" =>
          /\ rout.err.kind \in {"Init", "NoApiKey"}
          /\ inv.pc = "exit"
          /\ inv.exit = IF rout.err = ErrNoApiKey THEN "UNAVAILABLE"
                        ELSE "USAGE"
          /\ inv.walks = <<>>
          /\ NoFileWork
    /\ ~NoFileWork => (MainResolved /\ rout.tag = "Ok")

C17_Witness ==
    /\ rout.tag = "Err"
    /\ rout.err = NoValidTokenizers
    /\ rin.explicit = <<"claude", "gpt2">>
    /\ rin.offline
    /\ inv.pc = "exit"
    /\ inv.exit = "USAGE"
    /\ NoFileWork

\* C18: the credential is the value of TREETOK_API_KEY whenever that is
\* present, the value of ANTHROPIC_API_KEY only when TREETOK_API_KEY is
\* absent, and NoApiKey exactly when both are absent.
C18_TreetokKeyPreferred ==
    (MainResolved /\ ~inv.offline) =>
        /\ inv.treetok.some => inv.loaded = KeyOk(inv.treetok.v)
        /\ (~inv.treetok.some /\ inv.anthropic.some) =>
              inv.loaded = KeyOk(inv.anthropic.v)
        /\ (inv.loaded.tag = "Ok" /\ inv.loaded.key = "anthropic-key") =>
              ~inv.treetok.some
        /\ inv.loaded = KeyErr(ErrNoApiKey) <=>
              (~inv.treetok.some /\ ~inv.anthropic.some)
        /\ rin.api_key = ResultOk(inv.loaded)

C18_Witness ==
    /\ MainResolved
    /\ ~inv.offline
    /\ inv.treetok = Some("treetok-key")
    /\ inv.anthropic = Some("anthropic-key")
    /\ inv.loaded = KeyOk("treetok-key")

(***************************************************************************)
(* Properties of CtocTokenizer::count_tokens, checked under SpecCtoc       *)
(***************************************************************************)

MinOf(S) == CHOOSE x \in S : \A y \in S : x <= y
MaxOf(S) == CHOOSE x \in S : \A y \in S : y <= x

\* dp[j] of the dynamic program of C19: dp[0] = 0, and dp[j] is one more
\* than the least of dp[j - 1] and of dp[j - k] for every vocabulary entry
\* of length k that matches at j - k.
RECURSIVE Dp(_, _, _)
Dp(vocab, bytes, j) ==
    IF j = 0 THEN 0
    ELSE 1 + MinOf({Dp(vocab, bytes, j - 1)} \cup
                   {Dp(vocab, bytes, j - Len(p)) :
                       p \in {q \in vocab :
                                 /\ Len(q) <= j
                                 /\ q \in MatchesAt(vocab, bytes, j - Len(q))}})

CtocDone == seg.pc = "done"

\* C19: count_tokens returns dp[n], the least number of tokens, each a
\* vocabulary entry or one byte, that cover the n bytes of the text.
C19_ScanEqualsDp ==
    CtocDone => seg.tokens = Dp(seg.vocab, seg.text, Len(seg.text))

NoVocabularySubstring ==
    \A i \in 0..(Len(seg.text) - 1) : MatchesAt(seg.vocab, seg.text, i) = {}

\* C21: a text of n bytes in which no vocabulary entry occurs gives exactly
\* n tokens, one for each byte.
C21_UnmatchedBytesCountOne ==
    (CtocDone /\ NoVocabularySubstring) =>
        /\ seg.tokens = Len(seg.text)
        /\ seg.prev_end = 0

C21_Witness ==
    /\ CtocDone
    /\ seg.vocab = {<<97, 97>>, <<98, 98, 98>>}
    /\ seg.text = <<97, 98, 97, 98>>
    /\ NoVocabularySubstring
    /\ seg.tokens = 4

(***************************************************************************)
(* Properties of TokenCount::from_approx, checked under SpecApprox         *)
(***************************************************************************)

ApproxDone == fa.pc = "done"

\* floor(a / b) and ceil(a / b), by their defining inequalities.
FloorOf(a, b) == CHOOSE q \in 0..a : q * b <= a /\ a < (q + 1) * b
CeilOf(a, b) == CHOOSE q \in 0..a : (q - 1) * b < a /\ a <= q * b

\* C22: for every n >= 2, from_approx(n) is Approx{lo, hi} with lo <= hi
\* and hi - lo >= 4; a band narrower than 4 comes only from 0 or 1.
C22_BandAtLeastFour ==
    ApproxDone =>
        /\ fa.out.tag = "Approx"
        /\ fa.raw >= 2 => (fa.out.lo <= fa.out.hi /\ fa.out.hi - fa.out.lo >= 4)
        /\ fa.out.hi - fa.out.lo < 4 => fa.raw \in {0, 1}

C22_Witness ==
    /\ ApproxDone
    /\ fa.raw = 2
    /\ fa.out = Approx(0, 5)

TotalsDone == tot.pc = "done"

\* The files that hold the key k, by their place in the run.
Holders(k) == {i \in 1..Len(tot.files) : k \in DOMAIN tot.files[i]}
FileKeys == UNION {DOMAIN tot.files[i] : i \in 1..Len(tot.files)}

\* Every file that holds k holds it with the same variant.
SameVariant(k) ==
    \A i, j \in Holders(k) : tot.files[i][k].tag = tot.files[j][k].tag

\* The sum of the lower, and of the upper, bounds of k over a set of files.
RECURSIVE SumLo(_, _)
SumLo(k, I) ==
    IF I = {} THEN 0
    ELSE LET i == CHOOSE x \in I : TRUE
         IN  tot.files[i][k].lo + SumLo(k, I \ {i})
RECURSIVE SumHi(_, _)
SumHi(k, I) ==
    IF I = {} THEN 0
    ELSE LET i == CHOOSE x \in I : TRUE
         IN  tot.files[i][k].hi + SumHi(k, I \ {i})

\* C24: merging counts of the same variant adds them: Exact(a) with
\* Exact(b) is Exact(a + b), Approx(lo1, hi1) with Approx(lo2, hi2) is
\* Approx(lo1 + lo2, hi1 + hi2); Exact(100) + Exact(200) = Exact(300) and
\* Approx(93, 107) + Approx(189, 211) = Approx(282, 318).
C24_SameVariantAdds ==
    TotalsDone =>
        \A k \in FileKeys :
            SameVariant(k) =>
                LET first == tot.files[MinOf(Holders(k))][k]
                IN  /\ tot.totals[k] =
                         [tag |-> first.tag, lo |-> SumLo(k, Holders(k)),
                          hi |-> SumHi(k, Holders(k))]
                    /\ (Cardinality(Holders(k)) = 2
                         /\ {tot.files[i][k] : i \in Holders(k)} =
                                {Exact(100), Exact(200)})
                          => tot.totals[k] = Exact(300)
                    /\ (Cardinality(Holders(k)) = 2
                         /\ {tot.files[i][k] : i \in Holders(k)} =
                                {Approx(93, 107), Approx(189, 211)})
                          => tot.totals[k] = Approx(282, 318)

C24_Witness ==
    /\ TotalsDone
    /\ Len(tot.files) = 2
    /\ tot.files[1] = [k \in {"ctoc", "o200k"} |->
                          IF k = "ctoc" THEN Approx(93, 107) ELSE Exact(100)]
    /\ tot.files[2] = [k \in {"ctoc", "o200k"} |->
                          IF k = "ctoc" THEN Approx(189, 211) ELSE Exact(200)]
    /\ tot.totals["ctoc"] = Approx(282, 318)
    /\ tot.totals["o200k"] = Exact(300)

\* The files of the run taken in the order p.
Permuted(p) == [i \in 1..Len(tot.files) |-> tot.files[p[i]]]
Orders ==
    {p \in [1..Len(tot.files) -> 1..Len(tot.files)] :
        \A i, j \in 1..Len(tot.files) : p[i] = p[j] => i = j}

\* C25: when every identity has one variant in all files, the totals are
\* the same for every order of the files and every cut into successive
\* calls; a key's first occurrence seeds its total, and the keys of the
\* totals are the keys of the files.
C25_TotalsIndependentOfOrder ==
    /\ DOMAIN tot.totals \subseteq FileKeys
    /\ TotalsDone =>
          /\ DOMAIN tot.totals = FileKeys
          /\ \A k \in FileKeys :
                Cardinality(Holders(k)) = 1 =>
                    tot.totals[k] = tot.files[MinOf(Holders(k))][k]
          /\ (\A k \in FileKeys : SameVariant(k)) =>
                \A p \in Orders :
                    AccumulateTotals(Permuted(p), EmptyMap) = tot.totals

C25_Witness ==
    /\ TotalsDone
    /\ Len(tot.files) = 2
    /\ DOMAIN tot.files[1] = {"o200k"}
    /\ DOMAIN tot.files[2] = {"ctoc", "o200k"}
    /\ tot.files[1]["o200k"] = Exact(200)
    /\ tot.files[2]["o200k"] = Exact(100)
    /\ tot.totals["o200k"] = Exact(300)
    /\ tot.totals["ctoc"] = tot.files[2]["ctoc"]

\* C26: a count of the other variant leaves the total as it is. When a key
\* has both variants across the files, its total has the variant of the
\* first file that holds it and is the sum of the counts of that variant
\* only; the same files in the reverse order give another total.
C26_OtherVariantDropped ==
    TotalsDone =>
        \A k \in FileKeys :
            LET first == tot.files[MinOf(Holders(k))][k]
                same == {i \in Holders(k) : tot.files[i][k].tag = first.tag}
                last == tot.files[MaxOf(Holders(k))][k]
                reversed == [i \in 1..Len(tot.files) |->
                                tot.files[Len(tot.files) + 1 - i]]
            IN  /\ tot.totals[k] =
                     [tag |-> first.tag, lo |-> SumLo(k, same),
                      hi |-> SumHi(k, same)]
                /\ last.tag # first.tag =>
                      /\ AccumulateTotals(reversed, EmptyMap)[k].tag = last.tag
                      /\ AccumulateTotals(reversed, EmptyMap)[k] # tot.totals[k]

C26_Witness ==
    /\ TotalsDone
    /\ Len(tot.files) = 2
    /\ DOMAIN tot.files[1] = {"ctoc"}
    /\ DOMAIN tot.files[2] = {"ctoc"}
    /\ tot.files[1]["ctoc"] = Exact(100)
    /\ tot.files[2]["ctoc"] = Approx(189, 211)
    /\ tot.totals["ctoc"] = Exact(100)

\* The requests count_tokens has sent when it returns: the fall-through to
\* RateLimitExceeded comes after the last iteration, every other return comes
\* from within one.
SendsOf(c) ==
    IF c.result = Err(ErrRateLimitExceeded) THEN c.attempt ELSE c.attempt + 1
Started == {i \in DOMAIN task : task[i].pc # "idle"}
Finished == {i \in DOMAIN task : task[i].pc = "done"}
Pulled == {TextIndices(entries)[k] : k \in 1..nextText}

Phase2Safe ==
    (phase \in {"phase2", "done"} /\ RemoteActive) =>
        /\ Started = Pulled
        /\ Started \subseteq TextSet
        /\ Collected = Finished
        /\ Len(counts) = Cardinality(Finished)
        /\ permits + Cardinality(Holding(task)) = SEMAPHORE_PERMITS
        /\ \A i \in Finished :
               /\ task[i].result # Pending
               /\ SendsOf(task[i]) \in 1..MAX_RETRIES
        /\ \A j \in 1..Len(counts) :
               counts[j].result = task[counts[j].idx].result
        /\ Done =>
               /\ Finished = TextSet
               /\ permits = SEMAPHORE_PERMITS

LocalPart(m) == [k \in (DOMAIN m) \ {ClaudeId} |-> m[k]]

\* C28: a request is started, and the results change after Phase 1, only
\* with a remote counter and only once Phase 1 has made the FileResult of
\* every entry; from then on the vector keeps its length and order, every
\* rel_path and classification, every entry under a local identity and every
\* result that is not Text; the one change is the entry under the remote
\* identity of a Text result, Exact(n) for the request that returned Ok(n).
C28_Phase2ChangesRemoteEntryOnly ==
    /\ (phase = "phase2" \/ Started # {} \/ counts # <<>>) =>
          /\ RemoteActive
          /\ Len(phase1) = Len(entries)
    /\ phase = "phase1" => Started = {} /\ phase1 = <<>>
    /\ phase = "phase2" => results = phase1
    /\ phase \in {"phase2", "done"} =>
          /\ Len(results) = Len(phase1)
          /\ \A i \in 1..Len(results) :
                /\ results[i].rel_path = phase1[i].rel_path
                /\ results[i].kind = phase1[i].kind
                /\ results[i].msg = phase1[i].msg
                /\ ClaudeId \notin DOMAIN phase1[i].tokens
                /\ LocalPart(results[i].tokens) = phase1[i].tokens
                /\ ~IsText(i) => results[i] = phase1[i]
                /\ ClaudeId \in Keys(i) =>
                      /\ RemoteActive
                      /\ task[i].result.tag = "Ok"
                      /\ results[i].tokens[ClaudeId] =
                             Exact(task[i].result.value)

C28_Witness ==
    /\ Done
    /\ RemoteActive
    /\ Len(entries) = 2
    /\ IsText(1)
    /\ entries[2].kind = "Binary"
    /\ phase1[1].tokens # EmptyMap
    /\ Keys(1) = DOMAIN phase1[1].tokens \cup {ClaudeId}
    /\ results[1] # phase1[1]
    /\ results[2] = phase1[2]

\* The 429 responses received so far, and the seconds slept so far.
RateLimited == {j \in 1..Len(resps) : Is429(resps[j])}
RECURSIVE SecondsOf(_)
SecondsOf(q) == IF q = <<>> THEN 0 ELSE Head(q) + SecondsOf(Tail(q))

\* C29: every 429 received is followed by a backoff sleep, the last one
\* too: the sleeps taken are as many as the 429s received, the j-th of
\* 2^(j-1) seconds; after the third 429 the call is still asleep with no
\* result, and RateLimitExceeded is returned only with the sleeps 1, 2, 4
\* (7 seconds) taken, one more than the two retries made.
C29_SleepAfterEvery429 ==
    /\ Len(slept) = Cardinality(RateLimited)
    /\ \A j \in 1..Len(slept) : slept[j] = 2 ^ (j - 1)
    /\ call.pc = "sleep" =>
          /\ call.result = Pending
          /\ Is429(resps[Len(resps)])
          /\ Len(slept) = call.attempt + 1
    /\ Cardinality(RateLimited) = MAX_RETRIES =>
          /\ call.pc \in {"sleep", "done"}
          /\ slept = <<1, 2, 4>>
          /\ call.pc = "done" => call.result = Err(ErrRateLimitExceeded)
    /\ call.result = Err(ErrRateLimitExceeded) =>
          /\ slept = <<1, 2, 4>>
          /\ SecondsOf(slept) = 7
          /\ sent = MAX_RETRIES
          /\ Len(slept) = sent

C29_Witness ==
    /\ call.pc = "done"
    /\ call.result = Err(ErrRateLimitExceeded)
    /\ sent = 3
    /\ Cardinality(RateLimited) = 3
    /\ SecondsOf(slept) = 7

\* The identities of the active counters: a counter held twice is one
\* identity.
ActiveIds ==
    {tokenizers.local[j] : j \in 1..Len(tokenizers.local)}
        \cup (IF RemoteActive THEN {"claude"} ELSE {})
\* Every local counter returned Ok for entry i.
AllLocalOk(i) == \A t \in DOMAIN localOut[i] : localOut[i][t].tag = "Ok"

\* C30: the keys of a result's count mapping are identities of active
\* counters, one entry each, so the mapping is no larger than the set of
\* distinct identities, which is no larger than count(); a Text result whose
\* local counters all returned Ok holds every local identity once, and with
\* the same local counter constructed twice that is one entry for two
\* counters.
C30_OneEntryPerIdentity ==
    /\ Cardinality(ActiveIds) <= Count(tokenizers)
    /\ \A i \in 1..Len(results) :
          /\ Keys(i) \subseteq ActiveIds
          /\ Cardinality(Keys(i)) <= Cardinality(ActiveIds)
          /\ (IsText(i) /\ AllLocalOk(i)) =>
                /\ Keys(i) \ {"claude"} =
                      {tokenizers.local[j] : j \in 1..Len(tokenizers.local)}
                /\ (tokenizers.local = <<O200k, O200k>> /\ ~RemoteActive) =>
                      /\ Keys(i) = {"o200k"}
                      /\ Cardinality(Keys(i)) < Count(tokenizers)

C30_Witness ==
    /\ Done
    /\ tokenizers.local = <<O200k, O200k>>
    /\ Count(tokenizers) = 2
    /\ Len(results) = 2
    /\ IsText(1) /\ IsText(2)
    /\ AllLocalOk(1)
    /\ Keys(1) = {"o200k"}
    /\ results[1].tokens["o200k"] = Exact(5)

====
